---- MODULE Spec2Model ----
(***************************************************************************)
(* Model of the Resource-Allocator client: the token Cache, the Client     *)
(* constructor, login()/register() and the OAuth redirect listener         *)
(* (resource_allocator_client/client.py and callback.py).                   *)
(*                                                                         *)
(* Python's None is the empty tuple <<>>, a present value x is <<x>>.      *)
(* Strings that the code takes apart (server addresses, file names) are    *)
(* tuples of one-character strings; all other strings are TLA+ strings.    *)
(* An exception is the name of its class; "" means no exception.           *)
(***************************************************************************)
EXTENDS Integers, Sequences, FiniteSets, TLC

\* ------------------------------------------------------------------ bounds
MaxCalls == 2       \* login()/register() calls in one behaviour
MaxClients == 2     \* Client(...) constructions in one behaviour
MaxTicks == 1       \* clock advances in one behaviour
MaxLen == 3         \* characters in a generated text

\* ------------------------------------------------------- program constants
timeout == 60       \* CallbackServer.timeout, seconds
OneHour == 3600     \* dt.timedelta(hours=1), seconds
redirect_hostname == "localhost"
redirect_port == 8080

None == <<>>
Some(x) == <<x>>

\* ------------------------------------------------------------ text helpers
StartsWith(s, p) ==
    /\ Len(s) >= Len(p)
    /\ SubSeq(s, 1, Len(p)) = p

RECURSIVE RStrip(_, _)
RStrip(s, c) ==
    IF s # <<>> /\ s[Len(s)] = c THEN RStrip(SubSeq(s, 1, Len(s) - 1), c) ELSE s

IllegalChars == {"<", ">", ":", "/", "\\", "|", "?", "*"}

\* re.sub("[<>:/\\|?*]+", "_", value): every maximal run of illegal
\* characters becomes one underscore
RECURSIVE ReplaceFrom(_, _)
ReplaceFrom(value, i) ==
    IF i > Len(value) THEN <<>>
    ELSE IF value[i] \in IllegalChars
         THEN IF i > 1 /\ value[i - 1] \in IllegalChars
              THEN ReplaceFrom(value, i + 1)
              ELSE <<"_">> \o ReplaceFrom(value, i + 1)
         ELSE <<value[i]>> \o ReplaceFrom(value, i + 1)

\* re.sub without the +: every illegal character becomes an underscore
replace_each_char(value) ==
    [i \in 1..Len(value) |-> IF value[i] \in IllegalChars THEN "_" ELSE value[i]]

_replace_chars(value) == ReplaceFrom(value, 1)

HttpPrefix == <<"h", "t", "t", "p", ":", "/", "/">>
HttpsPrefix == <<"h", "t", "t", "p", "s", ":", "/", "/">>
JsonSuffix == <<".", "j", "s", "o", "n">>

\* the normalisation that removes one trailing slash only
NormalizeServer_one_slash(server) ==
    LET prefixed == IF ~StartsWith(server, HttpPrefix) /\ ~StartsWith(server, HttpsPrefix)
                    THEN HttpsPrefix \o server
                    ELSE server
    IN  IF prefixed # <<>> /\ prefixed[Len(prefixed)] = "/"
        THEN SubSeq(prefixed, 1, Len(prefixed) - 1)
        ELSE prefixed

\* Client.__init__: the server address as the client keeps it
NormalizeServer(server) ==
    LET prefixed == IF ~StartsWith(server, HttpPrefix) /\ ~StartsWith(server, HttpsPrefix)
                    THEN HttpsPrefix \o server
                    ELSE server
    IN  RStrip(prefixed, "/")

\* Cache.__post_init__: a path is its directory and its file name
PostInitPath(server, path) ==
    LET given == IF path = None
                 THEN [parent |-> ".", name |-> _replace_chars(server) \o JsonSuffix]
                 ELSE [parent |-> ".", name |-> path[1]]
    IN  [parent |-> given.parent, name |-> _replace_chars(given.name)]

\* ------------------------------------------------------- dates and ISO text
\* A datetime: seconds and microseconds, timezone-aware (UTC) or naive.
DateTime(secs, micro, tz) == [secs |-> secs, micro |-> micro, tz |-> tz]

\* dt.datetime.now(tz=dt.timezone.utc) when the clock shows n
UtcNow(n) == DateTime(n, 0, "utc")

\* a > b for two aware datetimes
After(a, b) == a.secs > b.secs \/ (a.secs = b.secs /\ a.micro > b.micro)

\* The text of a timestamp: its seconds field, an optional fraction and an
\* optional UTC offset; "empty" is the empty string, "bad" is text that is
\* not ISO-8601.
IsoText(secs, frac, offset) == [form |-> "iso", secs |-> secs, frac |-> frac, offset |-> offset]
EmptyText == [form |-> "empty", secs |-> 0, frac |-> <<>>, offset |-> <<>>]
BadText == [form |-> "bad", secs |-> 0, frac |-> <<>>, offset |-> <<>>]

\* isoformat() printed without the UTC offset
isoformat_no_offset(d) ==
    IsoText(d.secs, IF d.micro = 0 THEN <<>> ELSE <<d.micro>>, <<>>)

\* datetime.isoformat(): the fraction is printed only when it is not zero,
\* the offset only for an aware datetime
isoformat(d) ==
    IsoText(d.secs,
            IF d.micro = 0 THEN <<>> ELSE <<d.micro>>,
            IF d.tz = "utc" THEN <<"+00:00">> ELSE <<>>)

\* datetime.fromisoformat() of well-formed text
fromisoformat(text) ==
    DateTime(text.secs,
             IF text.frac = <<>> THEN 0 ELSE text.frac[1],
             IF text.offset = <<>> THEN "naive" ELSE "utc")

\* ------------------------------------------------------------------- Cache
\* A Cache object: the dataclass fields
CacheObj(server, email, token, expires_at, path) ==
    [server |-> server, email |-> email, token |-> token,
     expires_at |-> expires_at, path |-> path]

\* Cache(server=..., email=..., path=...): token and expires_at default to None
NewCache(server, email, path) ==
    CacheObj(server, email, None, None, PostInitPath(server, path))

\* The content of a file: absent, text that is not JSON, or a JSON record
Absent == [kind |-> "absent"]
Garbage == [kind |-> "garbage"]
JsonFile(data) == [kind |-> "json", data |-> data]

\* open(path): the content of the file at path p in the files f
FileAt(f, p) == IF p \in DOMAIN f THEN f[p] ELSE Absent

\* the files f after path p was given the content v
Put(f, p, v) == [q \in DOMAIN f \cup {p} |-> IF q = p THEN v ELSE f[q]]

\* Cache.write(): the file content that json.dump leaves
CacheWrite(c) ==
    JsonFile([server |-> c.server, email |-> c.email, token |-> c.token,
              expires_at |-> isoformat(c.expires_at[1]), path |-> c.path])

ReadOutcome(exc, c, hit) == [exc |-> exc, cache |-> c, hit |-> hit]

\* the comparison of read() without the email
ReadMatches_server_only(c, data) == c.server = data.server

\* self.server == data["server"] and self.email == data["email"]
ReadMatches(c, data) == c.server = data.server /\ c.email = data.email

\* expires_at > dt.datetime.now(tz=dt.timezone.utc)
ReadIsFresh(expires_at, n) == After(expires_at, UtcNow(n))

\* Cache.read() on cache object c when the file at c.path holds f and the
\* clock shows n: the exception raised (if any), the cache afterwards and
\* whether token and expires_at were set
CacheRead(c, f, n) ==
    IF f.kind = "absent" THEN ReadOutcome("", c, FALSE)
    ELSE IF f.kind = "garbage" THEN ReadOutcome("UnboundLocalError", c, FALSE)
    ELSE IF f.data.expires_at.form # "iso" THEN ReadOutcome("ValueError", c, FALSE)
    ELSE LET expires_at == fromisoformat(f.data.expires_at) IN
         IF ReadMatches(c, f.data)
         THEN IF expires_at.tz # "utc" THEN ReadOutcome("TypeError", c, FALSE)
              ELSE IF ReadIsFresh(expires_at, n)
                   THEN ReadOutcome("", [c EXCEPT !.token = f.data.token,
                                                  !.expires_at = Some(expires_at)], TRUE)
                   ELSE ReadOutcome("", c, FALSE)
         ELSE ReadOutcome("", c, FALSE)

UpdateOutcome(exc, c, wrote) == [exc |-> exc, cache |-> c, wrote |-> wrote]
Assigned(exc, c) == [exc |-> exc, cache |-> c]

\* the fallback without the timedelta
DefaultExpiry_now(n) == DateTime(n, 0, "utc")

\* the expiry update_from_login falls back to
DefaultExpiry(n) == DateTime(n + OneHour, 0, "utc")

\* Cache.update_from_login(data) at clock n, the two assignments:
\* expires_at is assigned first, then token
AssignFromLogin(c, data, n) ==
    IF data.kind # "object"
    THEN Assigned("TypeError", [c EXCEPT !.expires_at = Some(DefaultExpiry(n))])
    ELSE LET given == data.expires_at # None /\ data.expires_at[1].form # "empty" IN
         IF given /\ data.expires_at[1].form = "bad"
         THEN Assigned("ValueError", c)
         ELSE LET expires_at == IF given THEN fromisoformat(data.expires_at[1])
                                ELSE DefaultExpiry(n)
                  c1 == [c EXCEPT !.expires_at = Some(expires_at)]
              IN  IF data.token = None
                  THEN Assigned("KeyError", c1)
                  ELSE Assigned("", [c1 EXCEPT !.token = data.token])

\* update_from_login without self.write()
UpdateFromLogin_no_write(c, data, n) ==
    LET a == AssignFromLogin(c, data, n) IN UpdateOutcome(a.exc, a.cache, FALSE)

\* Cache.update_from_login(data): the assignments, then self.write()
UpdateFromLogin(c, data, n) ==
    LET a == AssignFromLogin(c, data, n) IN UpdateOutcome(a.exc, a.cache, a.exc = "")

\* ------------------------------------------------------------ request layer
\* A server response: its status code and its body. A body is text that is not
\* JSON, a JSON value that is not an object, or a JSON object with optional
\* token, expires_at and auth_url members.
NotJson == [kind |-> "notjson", token |-> None, expires_at |-> None, auth_url |-> None]
JsonArray == [kind |-> "array", token |-> None, expires_at |-> None, auth_url |-> None]
JsonObject(token, expires_at, auth_url) ==
    [kind |-> "object", token |-> token, expires_at |-> expires_at, auth_url |-> auth_url]
Response(status_code, body) == [status_code |-> status_code, body |-> body]

\* requests.Response.ok: raise_for_status() raises for 400..599 only
Ok(r) == ~(400 <= r.status_code /\ r.status_code < 600)

\* An HTTP request as _make_request sends it
Request(method, server, endpoint, bearer, redirect_uri, code, email, password, names) ==
    [method |-> method, server |-> server, endpoint |-> endpoint, bearer |-> bearer,
     redirect_uri |-> redirect_uri, code |-> code, email |-> email,
     password |-> password, names |-> names]

\* _make_request: if id, the id is appended to the URL
UrlId(id) == IF id = None \/ id[1] = 0 THEN None ELSE id

\* An HTTP request of list_items, get, create, update or delete
ApiRequest(method, server, endpoint, id, bearer) ==
    [method |-> method, server |-> server, endpoint |-> endpoint, id |-> UrlId(id),
     bearer |-> bearer, redirect_uri |-> None, code |-> None, email |-> None,
     password |-> None, names |-> None]

\* Client._make_request once the response r is in: APIError for a non-ok
\* status, otherwise result.json()
MakeRequest(r) ==
    IF ~Ok(r) THEN [exc |-> "APIError", json |-> r.body]
    ELSE IF r.body.kind = "notjson" THEN [exc |-> "JSONDecodeError", json |-> r.body]
    ELSE [exc |-> "", json |-> r.body]

\* login(): not isinstance(result, dict) or "token" not in result
InvalidLoginResponse(result) == result.kind # "object" \/ result.token = None

\* Client.login() from the point where the login answer is in
FinishLogin(c, r, n) ==
    LET m == MakeRequest(r) IN
    IF m.exc # "" THEN UpdateOutcome(m.exc, c, FALSE)
    ELSE IF InvalidLoginResponse(m.json) THEN UpdateOutcome("APIError", c, FALSE)
    ELSE UpdateFromLogin(c, m.json, n)

\* Client.register() from the point where the register answer is in
FinishRegister(c, r, n) ==
    LET m == MakeRequest(r) IN
    IF m.exc # "" THEN UpdateOutcome(m.exc, c, FALSE)
    ELSE UpdateFromLogin(c, m.json, n)

\* f"http://{self.redirect_hostname}:{self.redirect_port}"
RedirectUri == [scheme |-> "http", host |-> redirect_hostname, port |-> redirect_port]

\* ---------------------------------------------------------------- listener
\* A query string is a tuple of <<key, value>> pairs.
\* parse_qs(query).get(key): the values of key in order, blank values
\* dropped; None when nothing is left
ParseQsGet(query, key) ==
    LET kept == SelectSeq(query, LAMBDA kv: kv[1] = key /\ kv[2] # "")
    IN  [i \in 1..Len(kept) |-> kept[i][2]]

\* do_GET that keeps the last value of the code parameter
do_GET_last(query) ==
    LET code == ParseQsGet(query, "code") IN
    IF code # <<>> THEN [append |-> <<code[Len(code)]>>, status |-> 200]
    ELSE [append |-> <<>>, status |-> 400]

\* CallbackHandler.do_GET: what is appended to the code list and the status
\* of the response
do_GET(query) ==
    LET code == ParseQsGet(query, "code") IN
    IF code # <<>> THEN [append |-> <<code[1]>>, status |-> 200]
    ELSE [append |-> <<>>, status |-> 400]

\* ------------------------------------------------------------------ inputs
\* server arguments of Client(...)
RawServers ==
    { <<"a", "/", "b">>,
      HttpsPrefix \o <<"a", "/", "b", "/", "/">>,
      <<"a", ":", "b">> }

Emails == {"u@x", "v@x"}
Passwords == {None, Some("pw")}

\* cache_path arguments of Client(...)
CachePaths == {None}

\* every file the clients of this model can name
Paths ==
    { PostInitPath(NormalizeServer(s), cp) : s \in RawServers, cp \in CachePaths }

\* the expires_at members a server answer can carry at clock n
ExpiryMembers(n) ==
    { None,
      Some(EmptyText),
      Some(BadText),
      Some(IsoText(n + OneHour, <<>>, <<"+00:00">>)),
      Some(IsoText(n, <<5>>, <<"+00:00">>)),
      Some(IsoText(n + OneHour, <<>>, <<>>)) }

\* the answers of the server to a login, token exchange or registration
LoginResponses(n) ==
    { Response(404, NotJson), Response(200, NotJson), Response(200, JsonArray) }
    \cup { Response(200, JsonObject(None, None, None)) }
    \cup { Response(200, JsonObject(Some("abc"), e, None)) : e \in ExpiryMembers(n) }
    \cup { Response(200, JsonObject(Some("xyz"), Some(IsoText(n + OneHour, <<>>, <<"+00:00">>)),
                                     None)) }

\* the answers of the server to GET login_azure
AuthUrlResponses ==
    { Response(404, NotJson), Response(200, NotJson), Response(200, JsonArray),
      Response(200, JsonObject(None, None, None)),
      Response(200, JsonObject(None, None, Some("auth_url"))) }

\* the query strings of the requests that reach the listener
Queries ==
    { <<>>,
      << <<"code", "XYZ">>, <<"code", "ABC">> >>,
      << <<"state", "s">>, <<"code", "ABC">> >>,
      << <<"code", "">> >>,
      << <<"code", "">>, <<"code", "XYZ">> >> }

Names == {None, Some("n")}

\* "server////", the server of the client of TestClient.setUp
ExampleServer == <<"s", "e", "r", "v", "e", "r", "/", "/", "/", "/">>

\* the server arguments of the clients of the API layer: with and without a
\* scheme, with and without slashes
ServerTexts ==
    { p \o b : p \in {<<>>, HttpPrefix, HttpsPrefix},
               b \in UNION { [1..n -> {"a", "/"}] : n \in 0..MaxLen } }
    \cup {ExampleServer}

\* the operations of the API layer: list_items (without search terms), get,
\* create, update and delete, with the method and the id each one passes
ApiOps ==
    { [name |-> "list_items", method |-> "GET", id |-> None],
      [name |-> "get", method |-> "GET", id |-> Some(1)],
      [name |-> "create", method |-> "POST", id |-> None],
      [name |-> "update", method |-> "PUT", id |-> Some(1)],
      [name |-> "delete", method |-> "DELETE", id |-> Some(1)] }

\* the answers of the server to a request of the API layer
ApiResponses ==
    { Response(200, JsonArray), Response(200, NotJson), Response(304, NotJson),
      Response(404, JsonObject(None, None, None)), Response(500, NotJson) }

\* the answers of the server to the logins of the API layer's clients
ApiLoginResponses ==
    { Response(404, NotJson), Response(304, NotJson),
      Response(200, JsonObject(Some("abc"), None, None)) }

\* the characters of the generated texts: the illegal ones and two others
TextAlphabet == IllegalChars \cup {"a", "_"}

\* "http://127.0.0.1:5000/.json", the argument of test_replace_chars
ExampleText ==
    HttpPrefix \o <<"1", "2", "7", ".", "0", ".", "0", ".", "1", ":", "5", "0", "0", "0", "/">>
               \o JsonSuffix

\* the arguments of the direct calls of Cache._replace_chars
Texts == UNION { [1..n -> TextAlphabet] : n \in 0..MaxLen } \cup {ExampleText}

\* clock advances, in seconds
TickSteps == {OneHour}

\* the file that may be on disk when the first client starts, and what it holds
InitPath == PostInitPath(NormalizeServer(<<"a", "/", "b">>), None)

InitFiles ==
    { Garbage,
      JsonFile([server |-> NormalizeServer(<<"a", "/", "b">>), email |-> "u@x",
                token |-> Some("old"), expires_at |-> BadText, path |-> InitPath]) }

\* ------------------------------------------------------------------- state
VARIABLES
    pc,         \* "start": no client yet; "ready": no call in progress;
                \* "azure_opened", "listening", "azure_post": inside _login_azure
    client,     \* the Client object: server, email, password, azure_login
    cache,      \* client.cache
    fs,         \* the files: path -> content
    now,        \* the clock, seconds
    sent,       \* the HTTP requests sent since the last call began, a
                \* call being Client(...), login() or register()
    writes,     \* the cache writes since the last call began
    browser,    \* the URLs opened in the browser or printed in that call
    listener,   \* "off", "listening" or "closed"
    variable,   \* the code list of run_callback_server
    responses,  \* the statuses the listener has answered with
    handled,    \* the query strings of the requests the listener has handled
    code,       \* the local variable code of _login_azure
    refused,    \* the redirects that found no listener bound to the port
    answer,     \* the last server answer to a login, exchange or registration
    result,     \* the outcome of the last call
    pre,        \* the kind of the cache file when the last call began
    written,    \* path -> the Cache object of the last write() to it
    args,       \* the password and azure_login arguments of the last Client(...)
    text,       \* the text under study: the argument of the direct call of
                \* Cache._replace_chars or the server argument of Client(...)
    replaced,   \* what the call of _replace_chars returned
    calls, clients, ticks

vars == <<pc, client, cache, fs, now, sent, writes, browser, listener, variable,
          responses, handled, code, refused, answer, result, pre, written, args, text, replaced,
          calls, clients, ticks>>

listenerVars == <<listener, variable, responses, handled, code, refused>>
callVars == <<sent, writes, browser, answer, pre>>
textVars == <<text, replaced>>

Result(op, status, exc, via, hit) ==
    [op |-> op, status |-> status, exc |-> exc, via |-> via, hit |-> hit]

NoClient == [server |-> <<>>, email |-> "", password |-> None, azure_login |-> FALSE]

Init ==
    /\ pc = "start"
    /\ client = NoClient
    /\ cache = NewCache(<<>>, "", None)
    /\ \E f \in InitFiles \cup {Absent} :
          fs = [q \in Paths |-> IF q = InitPath THEN f ELSE Absent]
    /\ now = 0
    /\ sent = <<>>
    /\ writes = 0
    /\ browser = <<>>
    /\ listener = "off"
    /\ variable = <<>>
    /\ responses = <<>>
    /\ handled = <<>>
    /\ code = None
    /\ refused = <<>>
    /\ answer = None
    /\ result = Result("none", "ok", "", "", FALSE)
    /\ pre = "absent"
    /\ written = [q \in Paths |-> None]
    /\ args = [password |-> None, azure_login |-> FALSE]
    /\ text = None
    /\ replaced = None
    /\ calls = 0
    /\ clients = 0
    /\ ticks = 0

\* the check of Client.__init__ that only rejects the missing password
BadAuthOptions_neither_only(password, azure_login) ==
    password = None /\ ~azure_login

\* Client.__init__: neither or both of password and azure_login
BadAuthOptions(password, azure_login) ==
    \/ (password = None /\ ~azure_login)
    \/ (password # None /\ azure_login)

\* Client(server, email, password, azure_login, cache_path)
ClientInit(server, email, password, azure_login, cache_path) ==
    /\ pc \in {"start", "ready"}
    /\ clients < MaxClients
    /\ clients' = clients + 1
    /\ args' = [password |-> password, azure_login |-> azure_login]
    /\ IF BadAuthOptions(password, azure_login)
       THEN /\ result' = Result("init", "raised", "ValueError", "", FALSE)
            /\ UNCHANGED <<pc, client, cache>>
       ELSE /\ result' = Result("init", "ok", "", "", FALSE)
            /\ pc' = "ready"
            /\ client' = [server |-> NormalizeServer(server), email |-> email,
                          password |-> password, azure_login |-> azure_login]
            /\ cache' = NewCache(NormalizeServer(server), email, cache_path)
    /\ sent' = <<>>
    /\ writes' = 0
    /\ browser' = <<>>
    /\ answer' = None
    /\ pre' = "absent"
    /\ listener' = "off"
    /\ variable' = <<>>
    /\ responses' = <<>>
    /\ handled' = <<>>
    /\ code' = None
    /\ refused' = <<>>
    /\ UNCHANGED <<fs, now, written, calls, ticks>>

\* the clock advances
Tick(d) ==
    /\ pc # "listening"
    /\ ticks < MaxTicks
    /\ ticks' = ticks + 1
    /\ now' = now + d
    /\ UNCHANGED <<pc, client, cache, fs, written, args, calls, clients, result>>
    /\ UNCHANGED textVars
    /\ UNCHANGED callVars
    /\ UNCHANGED listenerVars

\* login() that never takes the token of the cache
UsesCache_never(c) == FALSE

\* login(): if self.cache.token
UsesCache(c) == c.token # None /\ c.token # Some("")

\* what every login() and register() call starts from
BeginCall ==
    /\ pc = "ready"
    /\ calls < MaxCalls
    /\ calls' = calls + 1
    /\ pre' = FileAt(fs, cache.path).kind
    /\ listener' = "off"
    /\ variable' = <<>>
    /\ responses' = <<>>
    /\ handled' = <<>>
    /\ code' = None
    /\ refused' = <<>>

\* the call ends: the cache object and, when write() ran, the file
EndCall(op, u, w0, hit) ==
    /\ pc' = "ready"
    /\ cache' = u.cache
    /\ IF u.wrote
       THEN /\ fs' = Put(fs, u.cache.path, CacheWrite(u.cache))
            /\ written' = Put(written, u.cache.path, Some(u.cache))
            /\ writes' = w0 + 1
       ELSE /\ UNCHANGED <<fs, written>>
            /\ writes' = w0
    /\ result' = IF u.exc = "" THEN Result(op, "ok", "", "fresh", hit)
                 ELSE Result(op, "raised", u.exc, "fresh", hit)

\* login() that ends at the cache: read() raises, or a token is in the cache
LoginFromCache ==
    /\ BeginCall
    /\ LET rd == CacheRead(cache, FileAt(fs, cache.path), now) IN
       /\ rd.exc # "" \/ UsesCache(rd.cache)
       /\ cache' = rd.cache
       /\ result' = IF rd.exc # "" THEN Result("login", "raised", rd.exc, "cache", rd.hit)
                    ELSE Result("login", "ok", "", "cache", rd.hit)
    /\ sent' = <<>>
    /\ writes' = 0
    /\ browser' = <<>>
    /\ answer' = None
    /\ UNCHANGED <<pc, client, fs, now, written, args, clients, ticks>>
    /\ UNCHANGED textVars

\* login() with a password: read(), POST login, update_from_login
LoginEmail(r) ==
    /\ BeginCall
    /\ ~client.azure_login
    /\ LET rd == CacheRead(cache, FileAt(fs, cache.path), now) IN
       /\ rd.exc = ""
       /\ ~UsesCache(rd.cache)
       /\ sent' = <<Request("POST", client.server, "login", rd.cache.token, None, None,
                            Some(client.email), client.password, None)>>
       /\ EndCall("login", FinishLogin(rd.cache, r, now), 0, rd.hit)
    /\ browser' = <<>>
    /\ answer' = Some(r)
    /\ UNCHANGED <<client, now, args, clients, ticks>>
    /\ UNCHANGED textVars

\* login() with azure_login, up to the call of run_callback_server: read(),
\* GET login_azure, then auth_url is opened in the browser or printed
LoginAzureGet(r) ==
    /\ BeginCall
    /\ client.azure_login
    /\ LET rd == CacheRead(cache, FileAt(fs, cache.path), now)
           m == MakeRequest(r)
           exc == IF m.exc # "" THEN m.exc
                  ELSE IF m.json.kind # "object" THEN "TypeError"
                  ELSE IF m.json.auth_url = None THEN "KeyError"
                  ELSE ""
       IN
       /\ rd.exc = ""
       /\ ~UsesCache(rd.cache)
       /\ cache' = rd.cache
       /\ sent' = <<Request("GET", client.server, "login_azure", rd.cache.token,
                            Some(RedirectUri), None, None, None, None)>>
       /\ IF exc # ""
          THEN /\ result' = Result("login", "raised", exc, "fresh", rd.hit)
               /\ browser' = <<>>
               /\ UNCHANGED pc
          ELSE /\ result' = Result("login", "running", "", "fresh", rd.hit)
               /\ browser' = <<m.json.auth_url[1]>>
               /\ pc' = "azure_opened"
    /\ writes' = 0
    /\ answer' = None
    /\ UNCHANGED <<client, fs, now, written, args, clients, ticks>>
    /\ UNCHANGED textVars

\* the redirects the browser can follow once the user has signed in
Redirects == { query \in Queries : ParseQsGet(query, "code") # <<>> }

\* _login_azure between webbrowser.open(auth_url) and the call of
\* run_callback_server: the browser is open, no server is bound to the
\* redirect port yet, and a redirect that arrives now is refused
RedirectRefused(query) ==
    /\ pc = "azure_opened"
    /\ refused = <<>>
    /\ refused' = <<query>>
    /\ UNCHANGED <<listener, variable, responses, handled, code>>
    /\ UNCHANGED <<pc, client, cache, fs, now, written, args, calls, clients, ticks, result>>
    /\ UNCHANGED callVars
    /\ UNCHANGED textVars

\* run_callback_server up to httpd.handle_request(): variable is None, so a
\* new list becomes CallbackHandler.code, and the server is bound
RunCallbackServer ==
    /\ pc = "azure_opened"
    /\ pc' = "listening"
    /\ listener' = "listening"
    /\ variable' = <<>>
    /\ UNCHANGED <<responses, handled, code, refused>>
    /\ UNCHANGED <<client, cache, fs, now, written, args, calls, clients, ticks, result>>
    /\ UNCHANGED textVars
    /\ UNCHANGED callVars

\* run_callback_server that returns None for an empty list
ReturnCode_or_none(v) ==
    [exc |-> "", code |-> IF v = <<>> THEN None ELSE Some(v[1])]

\* run_callback_server: return variable[0]
ReturnCode(v) ==
    IF v = <<>> THEN [exc |-> "IndexError", code |-> None]
    ELSE [exc |-> "", code |-> Some(v[1])]

\* run_callback_server after handle_request() has returned: the server is
\* closed and _login_azure goes on with the code or with the exception
LeaveListener(v) ==
    LET ret == ReturnCode(v) IN
    /\ listener' = "closed"
    /\ code' = ret.code
    /\ IF ret.exc # ""
       THEN /\ pc' = "ready"
            /\ result' = Result("login", "raised", ret.exc, "fresh", result.hit)
       ELSE /\ pc' = "azure_post"
            /\ UNCHANGED result

\* handle_request() serves the one request that arrives: do_GET
HandleRequest(query) ==
    /\ pc = "listening"
    /\ LET g == do_GET(query) IN
       /\ variable' = variable \o g.append
       /\ responses' = Append(responses, g.status)
       /\ handled' = Append(handled, query)
       /\ LeaveListener(variable \o g.append)
    /\ UNCHANGED refused
    /\ UNCHANGED <<client, cache, fs, now, written, args, calls, clients, ticks>>
    /\ UNCHANGED textVars
    /\ UNCHANGED callVars

\* handle_request() returns after timeout seconds without a request
ListenerTimeout ==
    /\ pc = "listening"
    /\ now' = now + timeout
    /\ LeaveListener(variable)
    /\ UNCHANGED <<variable, responses, handled, refused>>
    /\ UNCHANGED <<client, cache, fs, written, args, calls, clients, ticks>>
    /\ UNCHANGED textVars
    /\ UNCHANGED callVars

\* the token exchange without the redirect address
ExchangeRequest_no_redirect(cl, c, captured) ==
    Request("POST", cl.server, "login_azure", c.token, None, captured, Some(cl.email),
            None, None)

\* _login_azure: the POST to login_azure with code, email and redirect_uri
ExchangeRequest(cl, c, captured) ==
    Request("POST", cl.server, "login_azure", c.token, Some(RedirectUri), captured,
            Some(cl.email), None, None)

\* _login_azure after run_callback_server: POST login_azure, then the rest
\* of login(); the server and the code list are gone when _login_azure returns
AzurePost(r) ==
    /\ pc = "azure_post"
    /\ sent' = Append(sent, ExchangeRequest(client, cache, code))
    /\ EndCall("login", FinishLogin(cache, r, now), writes, result.hit)
    /\ answer' = Some(r)
    /\ listener' = "off"
    /\ variable' = <<>>
    /\ responses' = <<>>
    /\ handled' = <<>>
    /\ code' = None
    /\ refused' = <<>>
    /\ UNCHANGED <<client, now, args, calls, clients, ticks, browser, pre>>
    /\ UNCHANGED textVars

\* _register_email: not first_name or not last_name
MissingNames(first_name, last_name) == first_name = None \/ last_name = None

\* register(first_name, last_name)
Register(first_name, last_name, r) ==
    /\ BeginCall
    /\ IF client.azure_login
       THEN /\ result' = Result("register", "raised", "NotImplementedError", "fresh", FALSE)
            /\ sent' = <<>>
            /\ writes' = 0
            /\ answer' = None
            /\ UNCHANGED <<pc, cache, fs, written>>
       ELSE IF MissingNames(first_name, last_name)
       THEN /\ result' = Result("register", "raised", "ValueError", "fresh", FALSE)
            /\ sent' = <<>>
            /\ writes' = 0
            /\ answer' = None
            /\ UNCHANGED <<pc, cache, fs, written>>
       ELSE /\ sent' = <<Request("POST", client.server, "register", cache.token, None, None,
                                 Some(client.email), client.password,
                                 <<first_name, last_name>>)>>
            /\ EndCall("register", FinishRegister(cache, r, now), 0, FALSE)
            /\ answer' = Some(r)
    /\ browser' = <<>>
    /\ UNCHANGED <<client, now, args, clients, ticks>>
    /\ UNCHANGED textVars

Next ==
    \/ \E server \in RawServers, email \in Emails, password \in Passwords,
          azure_login \in BOOLEAN, cache_path \in CachePaths :
          ClientInit(server, email, password, azure_login, cache_path) /\ UNCHANGED textVars
    \/ \E d \in TickSteps : Tick(d)
    \/ LoginFromCache
    \/ \E r \in LoginResponses(now) : LoginEmail(r)
    \/ \E r \in AuthUrlResponses : LoginAzureGet(r)
    \/ \E query \in Redirects : RedirectRefused(query)
    \/ RunCallbackServer
    \/ \E query \in Queries : HandleRequest(query)
    \/ ListenerTimeout
    \/ \E r \in LoginResponses(now) : AzurePost(r)
    \/ \E first_name \in Names, last_name \in Names, r \in LoginResponses(now) :
          Register(first_name, last_name, r)

Spec == Init /\ [][Next]_vars

\* list_items, get, create, update and delete: one _make_request
ApiCall(op, r) ==
    /\ BeginCall
    /\ sent' = <<ApiRequest(op.method, client.server, "endpoint", op.id, cache.token)>>
    /\ LET m == MakeRequest(r) IN
       result' = IF m.exc # "" THEN Result(op.name, "raised", m.exc, "", FALSE)
                 ELSE Result(op.name, "ok", "", "", FALSE)
    /\ writes' = 0
    /\ browser' = <<>>
    /\ answer' = Some(r)
    /\ UNCHANGED <<pc, client, cache, fs, now, written, args, clients, ticks>>
    /\ UNCHANGED textVars

\* the first Client(...) of a behaviour, with a password
FirstClient(server, email) ==
    /\ pc = "start"
    /\ ClientInit(server, email, Some("pw"), FALSE, None)
    /\ text' = Some(server)
    /\ UNCHANGED replaced

ApiNext ==
    \/ \E server \in ServerTexts, email \in Emails : FirstClient(server, email)
    \/ LoginFromCache
    \/ \E r \in ApiLoginResponses : LoginEmail(r)
    \/ \E op \in ApiOps, r \in ApiResponses : ApiCall(op, r)

\* one client of any server text and its requests
ApiSpec == Init /\ [][ApiNext]_vars

\* Cache._replace_chars(value), called directly as the static method it is;
\* the function keeps no state, so one call in a behaviour shows all of it
CallReplaceChars(value) ==
    /\ text = None
    /\ text' = Some(value)
    /\ replaced' = Some(_replace_chars(value))
    /\ UNCHANGED <<pc, client, cache, fs, now, written, args, calls, clients, ticks, result>>
    /\ UNCHANGED callVars
    /\ UNCHANGED listenerVars

CharsNext == \E value \in Texts : CallReplaceChars(value)

\* _replace_chars alone, applied to every text of Texts
CharsSpec == Init /\ [][CharsNext]_vars

\* ================================================================== claims
\* a step that is the whole of, or the beginning of, a login() call
LoginStep == calls' = calls + 1 /\ result'.op = "login"

\* C1: for every (server, email, token, expires_at) with expires_at strictly
\* after the current UTC time, write() followed by read() on a new Cache with
\* the same server, email and path leaves the new cache holding the same
\* token and the same expires_at.
C1_RoundTrip ==
    [][ ( /\ LoginStep
          /\ cache.token = None
          /\ written[cache.path] # None
          /\ written[cache.path][1].server = cache.server
          /\ written[cache.path][1].email = cache.email
          /\ written[cache.path][1].expires_at[1].tz = "utc"
          /\ After(written[cache.path][1].expires_at[1], UtcNow(now)) )
        => ( /\ result'.hit
             /\ cache'.token = written[cache.path][1].token
             /\ cache'.expires_at = written[cache.path][1].expires_at ) ]_vars

\* a second client has read back, with microseconds, what the first wrote
C1_Witness ==
    /\ clients = 2
    /\ calls = 2
    /\ result.op = "login"
    /\ result.hit
    /\ written[cache.path] # None
    /\ cache.token = written[cache.path][1].token
    /\ cache.expires_at = written[cache.path][1].expires_at
    /\ cache.expires_at[1].micro # 0

\* C2: read() sets token and expires_at only if the stored server equals the
\* requested server, the stored email equals the requested email and the
\* stored expires_at is strictly after the current UTC time; when it does,
\* it sets them to the stored values.
C2_ReadOnlyIfValid ==
    [][ (LoginStep /\ result'.hit)
        => ( /\ fs[cache.path].kind = "json"
             /\ fs[cache.path].data.server = cache.server
             /\ fs[cache.path].data.email = cache.email
             /\ fs[cache.path].data.expires_at.form = "iso"
             /\ fs[cache.path].data.expires_at.offset # <<>>
             /\ \/ fs[cache.path].data.expires_at.secs > now
                \/ /\ fs[cache.path].data.expires_at.secs = now
                   /\ fs[cache.path].data.expires_at.frac # <<>>
                   /\ fs[cache.path].data.expires_at.frac[1] > 0
             /\ cache'.token = fs[cache.path].data.token ) ]_vars

\* read() met the record of another email, set nothing, and the fresh login
\* that followed failed, so the record is still there
C2_Witness ==
    /\ result.op = "login"
    /\ result.status = "raised"
    /\ result.exc = "APIError"
    /\ ~result.hit
    /\ cache.token = None
    /\ fs[cache.path].kind = "json"
    /\ fs[cache.path].data.server = cache.server
    /\ fs[cache.path].data.email # cache.email
    /\ fs[cache.path].data.expires_at.secs > now

\* C3: Client(...) with both a password and azure_login, or with neither,
\* raises ValueError, sends no request and leaves every file and the
\* existing objects alone; with exactly one of the two it succeeds.
C3_AuthOptions ==
    [][ (clients' = clients + 1)
        => IF (args'.password # None) = args'.azure_login
           THEN /\ result' = Result("init", "raised", "ValueError", "", FALSE)
                /\ sent' = <<>>
                /\ writes' = 0
                /\ fs' = fs
                /\ client' = client
                /\ cache' = cache
           ELSE /\ result' = Result("init", "ok", "", "", FALSE)
                /\ pc' = "ready"
                /\ client'.password = args'.password
                /\ client'.azure_login = args'.azure_login
                /\ sent' = <<>>
                /\ writes' = 0
                /\ fs' = fs ]_vars

\* the constructor has refused a password together with azure_login
C3_Witness ==
    /\ result.op = "init"
    /\ result.exc = "ValueError"
    /\ args.password # None
    /\ args.azure_login

\* the code parameters of a query string, blank values included
CodeValues(query) ==
    LET kept == SelectSeq(query, LAMBDA kv: kv[1] = "code")
    IN  [i \in 1..Len(kept) |-> kept[i][2]]

\* the non-blank values among them
NonBlank(values) == SelectSeq(values, LAMBDA v: v # "")

\* C4 as stated: a GET whose query string contains a code parameter makes
\* the listener capture the first value of that parameter, answer 200, serve
\* nothing more, and run_callback_server return that code.
C4_AsStated ==
    (handled # <<>> /\ CodeValues(handled[1]) # <<>>)
    => ( /\ responses = <<200>>
         /\ Len(handled) = 1
         /\ listener = "closed"
         /\ variable = <<CodeValues(handled[1])[1]>>
         /\ code = Some(CodeValues(handled[1])[1]) )

\* C4 (amended): a GET whose query string contains a code parameter with a
\* non-empty value makes the listener capture the first non-empty value of
\* that parameter, answer 200, serve nothing more, and run_callback_server
\* return that code; the list holds exactly that one code.
C4_CaptureFirstCode ==
    (handled # <<>> /\ NonBlank(CodeValues(handled[1])) # <<>>)
    => ( /\ responses = <<200>>
         /\ Len(handled) = 1
         /\ listener = "closed"
         /\ variable = <<NonBlank(CodeValues(handled[1]))[1]>>
         /\ code = Some(NonBlank(CodeValues(handled[1]))[1])
         /\ pc = "azure_post" )

\* the listener got ?code=XYZ&code=ABC and handed XYZ to _login_azure
C4_Witness ==
    /\ handled = << << <<"code", "XYZ">>, <<"code", "ABC">> >> >>
    /\ responses = <<200>>
    /\ variable = <<"XYZ">>
    /\ code = Some("XYZ")
    /\ pc = "azure_post"

\* C5: after a request without a code parameter the listener has answered
\* 400 and keeps waiting, so that a later qualifying request is captured.
C5_KeepsWaiting ==
    (handled # <<>> /\ NonBlank(CodeValues(handled[Len(handled)])) = <<>>)
    => ( /\ responses[Len(responses)] = 400
         /\ listener = "listening"
         /\ pc = "listening" )

\* the requests of the last call that use the given method
SentWith(method) == SelectSeq(sent, LAMBDA q: q.method = method)

\* C6: when the listener's window ends without a qualifying request,
\* run_callback_server ends in an error instead of returning a code, and the
\* login that started it has failed: no token-exchange POST is sent, the
\* cache is not written and login() does not return normally.
C6_NoCodeNoLogin ==
    (listener = "closed" /\ variable = <<>>)
    => ( /\ pc = "ready"
         /\ code = None
         /\ result.op = "login"
         /\ result.status = "raised"
         /\ result.exc = "IndexError"
         /\ SentWith("POST") = <<>>
         /\ writes = 0 )

\* the 60 seconds went by without any request and login() raised
C6_Witness ==
    /\ listener = "closed"
    /\ handled = <<>>
    /\ variable = <<>>
    /\ now >= timeout
    /\ result.op = "login"
    /\ result.status = "raised"
    /\ SentWith("GET") # <<>>

\* C7: when read() yields a usable session at the start of login(), login()
\* returns without sending any request and without starting the listener.
C7_CachedShortCircuit ==
    (result.op = "login" /\ result.hit)
    => ( /\ pc = "ready"
         /\ result.status = "ok"
         /\ sent = <<>>
         /\ browser = <<>>
         /\ listener = "off"
         /\ writes = 0 )

\* an azure client found a valid session in the cache and returned at once
C7_Witness ==
    /\ result.op = "login"
    /\ result.hit
    /\ result.status = "ok"
    /\ client.azure_login
    /\ sent = <<>>
    /\ listener = "off"

\* C8: whenever a fresh login (password or interactive) or a registration
\* succeeds, the token and the expiry the server returned are in the cache
\* file when control returns to the caller.
C8_WrittenBeforeReturn ==
    (result.op \in {"login", "register"} /\ result.status = "ok" /\ result.via = "fresh")
    => ( /\ pc = "ready"
         /\ answer # None
         /\ answer[1].body.token # None
         /\ writes = 1
         /\ fs[cache.path].kind = "json"
         /\ fs[cache.path].data.token = answer[1].body.token
         /\ fs[cache.path].data.server = client.server
         /\ fs[cache.path].data.email = client.email
         /\ (answer[1].body.expires_at # None /\ answer[1].body.expires_at[1].form = "iso")
            => /\ fs[cache.path].data.expires_at.secs = answer[1].body.expires_at[1].secs
               /\ fs[cache.path].data.expires_at.frac = answer[1].body.expires_at[1].frac
               /\ fs[cache.path].data.expires_at.offset = answer[1].body.expires_at[1].offset )

\* no cache file, password mode, the server answers token "abc" expiring one
\* hour ahead: login() has returned and the file holds "abc"
C8_Witness ==
    /\ result = Result("login", "ok", "", "fresh", FALSE)
    /\ pre = "absent"
    /\ ~client.azure_login
    /\ answer = Some(Response(200, JsonObject(Some("abc"),
                         Some(IsoText(now + OneHour, <<>>, <<"+00:00">>)), None)))
    /\ fs[cache.path].kind = "json"
    /\ fs[cache.path].data.token = Some("abc")

\* C9: if the server's answer to a login or token exchange lacks the token
\* or is not a JSON object, login() fails with APIError and does not write
\* the cache.
C9_BadAnswerIsAPIError ==
    ( /\ result.op = "login"
      /\ answer # None
      /\ (answer[1].body.kind # "object" \/ answer[1].body.token = None) )
    => ( /\ result.status = "raised"
         /\ result.exc = "APIError"
         /\ writes = 0 )

\* C10: when the cache file does not exist or does not parse, login()
\* raises no error because of it and proceeds to a fresh login.
C10_CacheFailureRecovered ==
    (result.op = "login" /\ pre \in {"absent", "garbage"})
    => ( /\ result.via = "fresh"
         /\ sent # <<>>
         /\ result.exc \notin {"UnboundLocalError"} )

\* C11: two clients with different (server, email) pairs never derive the
\* same cache file path, and the same pair always derives the same path: a
\* record found at the path of a client was written for that client's pair,
\* and a record written for that pair lies at that path.
C11_PathsNeverCollide ==
    (pc # "start")
    => \A p \in Paths :
          written[p] # None
          => ( (written[p][1].server = cache.server /\ written[p][1].email = cache.email)
               <=> p = cache.path )

\* "http_127.0.0.1_5000_.json", the name test_replace_chars expects
ExampleName ==
    <<"h", "t", "t", "p", "_", "1", "2", "7", ".", "0", ".", "0", ".", "1", "_",
      "5", "0", "0", "0", "_">> \o JsonSuffix

\* the positions of a text that are kept: every other character and the
\* first character of every run of illegal ones
RunHeads(v) ==
    SelectSeq([i \in 1..Len(v) |-> i],
              LAMBDA i: v[i] \notin IllegalChars \/ i = 1 \/ v[i - 1] \notin IllegalChars)

\* C12 as stated: the result of _replace_chars holds none of < > : / \ | ? *,
\* each of them having been replaced by _, and every other character is kept
\* in order; "http://127.0.0.1:5000/.json" gives "http_127.0.0.1_5000_.json".
C12_AsStated ==
    (replaced # None)
    => ( /\ \A i \in 1..Len(replaced[1]) : replaced[1][i] \notin IllegalChars
         /\ Len(replaced[1]) = Len(text[1])
         /\ \A i \in 1..Len(text[1]) :
               replaced[1][i] = IF text[1][i] \in IllegalChars THEN "_" ELSE text[1][i]
         /\ (text[1] = ExampleText => replaced[1] = ExampleName) )

\* C12 (amended): the result of _replace_chars holds none of < > : / \ | ? *,
\* each maximal run of them having been replaced by one _, and every other
\* character is kept in order; "http://127.0.0.1:5000/.json" gives
\* "http_127.0.0.1_5000_.json".
C12_RunsReplaced ==
    (replaced # None)
    => ( /\ \A i \in 1..Len(replaced[1]) : replaced[1][i] \notin IllegalChars
         /\ replaced[1] =
               [k \in 1..Len(RunHeads(text[1])) |->
                   IF text[1][RunHeads(text[1])[k]] \in IllegalChars
                   THEN "_"
                   ELSE text[1][RunHeads(text[1])[k]]]
         /\ (text[1] = ExampleText => replaced[1] = ExampleName) )

\* _replace_chars has turned the address of the test into its file name
C12_Witness ==
    /\ text = Some(ExampleText)
    /\ replaced = Some(ExampleName)

\* C13: the listener is already accepting while the orchestrator opens the
\* browser, so a redirect that arrives at any moment after the browser has
\* been opened is captured: none finds the port without a listener.
C13_RedirectCaptured ==
    (browser # <<>>) => refused = <<>>

\* the order of the steps of an interactive login, as far as a state shows it
AzureOrder ==
    /\ (browser # <<>>)
       => ( /\ sent # <<>>
            /\ sent[1].method = "GET"
            /\ sent[1].endpoint = "login_azure"
            /\ sent[1].redirect_uri = Some(RedirectUri) )
    /\ (listener # "off") => browser # <<>>
    /\ \A i \in 1..Len(sent) :
          (sent[i].method = "POST" /\ sent[i].endpoint = "login_azure")
          => ( /\ i = 2
               /\ Len(sent) = 2
               /\ browser # <<>>
               /\ sent[i].code # None
               /\ sent[i].email = Some(client.email)
               /\ sent[i].redirect_uri = sent[1].redirect_uri )

\* C14: an interactive login sends GET login_azure with the local redirect
\* address, then opens or prints auth_url, then runs the listener, then sends
\* POST login_azure; the POST is sent only after a code was captured and
\* carries exactly that code, the user's email and the redirect address of
\* the GET.
C14_InteractiveOrder ==
    [][ /\ AzureOrder'
        /\ (pc = "azure_post" /\ pc' = "ready")
           => ( /\ listener = "closed"
                /\ Len(handled) = 1
                /\ NonBlank(CodeValues(handled[1])) # <<>>
                /\ Len(sent') = 2
                /\ sent'[1] = sent[1]
                /\ sent'[2].method = "POST"
                /\ sent'[2].endpoint = "login_azure"
                /\ sent'[2].code = Some(NonBlank(CodeValues(handled[1]))[1]) ) ]_vars

\* an interactive login went through all four steps with the code XYZ
C14_Witness ==
    /\ client.azure_login
    /\ result = Result("login", "ok", "", "fresh", FALSE)
    /\ browser # <<>>
    /\ Len(sent) = 2
    /\ sent[2].code = Some("XYZ")
    /\ sent[2].redirect_uri = Some(RedirectUri)
    /\ writes = 1

\* C15: a response that is not 2xx to a request of the API layer raises
\* APIError, and the call has sent exactly one HTTP request.
C15_NonSuccessIsAPIError ==
    (answer # None)
    => ( /\ Len(sent) = 1
         /\ ~(200 <= answer[1].status_code /\ answer[1].status_code < 300)
            => (result.status = "raised" /\ result.exc = "APIError") )

\* a step in which a fresh login or a registration succeeds
StoreStep ==
    /\ result'.op \in {"login", "register"}
    /\ result'.status = "ok"
    /\ result'.via = "fresh"
    /\ answer' # None
    /\ (calls' = calls + 1 \/ pc = "azure_post")

\* C16: when the server's answer has no expires_at (absent or empty), the
\* session stored by update_from_login expires exactly one hour after the
\* moment of the login; when the answer has an expires_at, that value is
\* stored unchanged.
C16_StoredExpiry ==
    [][ StoreStep
        => IF \/ answer'[1].body.expires_at = None
              \/ answer'[1].body.expires_at[1].form = "empty"
           THEN /\ cache'.expires_at = Some(DateTime(now + OneHour, 0, "utc"))
                /\ FileAt(fs', cache'.path).data.expires_at
                      = IsoText(now + OneHour, <<>>, <<"+00:00">>)
           ELSE /\ cache'.expires_at[1].secs = answer'[1].body.expires_at[1].secs
                /\ cache'.expires_at[1].micro =
                      IF answer'[1].body.expires_at[1].frac = <<>> THEN 0
                      ELSE answer'[1].body.expires_at[1].frac[1]
                /\ (cache'.expires_at[1].tz = "utc")
                      = (answer'[1].body.expires_at[1].offset # <<>>)
                /\ FileAt(fs', cache'.path).data.expires_at = answer'[1].body.expires_at[1]
      ]_vars

\* the answer had an empty expires_at, the login happened one hour after the
\* start, and the file says the session expires one hour after that
C16_Witness ==
    /\ result = Result("login", "ok", "", "fresh", FALSE)
    /\ answer # None
    /\ answer[1].body.expires_at = Some(EmptyText)
    /\ now = OneHour
    /\ cache.expires_at = Some(DateTime(OneHour + OneHour, 0, "utc"))
    /\ FileAt(fs, cache.path).data.expires_at = IsoText(OneHour + OneHour, <<>>, <<"+00:00">>)

\* "https://server", the server TestClient.test_init expects
ExampleNormal == HttpsPrefix \o <<"s", "e", "r", "v", "e", "r">>

\* the server argument with https:// in front unless it begins with a scheme
WithScheme(raw) ==
    IF \/ (Len(raw) >= 7 /\ SubSeq(raw, 1, 7) = HttpPrefix)
       \/ (Len(raw) >= 8 /\ SubSeq(raw, 1, 8) = HttpsPrefix)
    THEN raw
    ELSE HttpsPrefix \o raw

\* C17: the client's server is the server argument with https:// prepended
\* when it has no http:// or https:// prefix and with all trailing slashes
\* removed, "server////" giving "https://server"; the cache and every
\* request use this address.
C17_ServerNormalised ==
    (text # None /\ pc # "start")
    => ( /\ \E k \in 0..Len(WithScheme(text[1])) :
               /\ client.server = SubSeq(WithScheme(text[1]), 1, k)
               /\ (k = 0 \/ WithScheme(text[1])[k] # "/")
               /\ \A i \in (k + 1)..Len(WithScheme(text[1])) : WithScheme(text[1])[i] = "/"
         /\ (text[1] = ExampleServer => client.server = ExampleNormal)
         /\ cache.server = client.server
         /\ (writes > 0 => FileAt(fs, cache.path).data.server = client.server)
         /\ \A i \in 1..Len(sent) : sent[i].server = client.server )

\* Client("server////") has logged in and asked for a list at https://server
C17_Witness ==
    /\ text = Some(ExampleServer)
    /\ client.server = ExampleNormal
    /\ cache.token # None
    /\ result.op = "list_items"
    /\ sent # <<>>
    /\ sent[1].server = ExampleNormal

\* C18: over any sequence of login() calls on one Client, with the clock
\* advancing between them, login() returns without a fresh login only if the
\* session on disk is unexpired and matches server and email at that call; a
\* token that an earlier login left in memory is not reused once its
\* expires_at is no longer strictly in the future.
C18_NoStaleReuse ==
    [][ (LoginStep /\ result'.status = "ok" /\ result'.via = "cache")
        => ( /\ result'.hit
             /\ sent' = <<>>
             /\ FileAt(fs, cache.path).kind = "json"
             /\ FileAt(fs, cache.path).data.server = cache.server
             /\ FileAt(fs, cache.path).data.email = cache.email
             /\ FileAt(fs, cache.path).data.expires_at.form = "iso"
             /\ FileAt(fs, cache.path).data.expires_at.secs >= now
             /\ cache'.expires_at # None
             /\ After(cache'.expires_at[1], UtcNow(now)) ) ]_vars

\* a step in which a login() or register() call ends in an error
FailStep ==
    /\ result'.op \in {"login", "register"}
    /\ result'.status = "raised"
    /\ (calls' = calls + 1 \/ pc \in {"listening", "azure_post"})

\* C19: a login() or register() call that ends in an error (a non-2xx
\* response, an answer without a token, a listener timeout, the interactive
\* registration that is not implemented) leaves the cache file exactly as it
\* was before the call and the token and expires_at in memory unchanged.
C19_FailureLeavesCache ==
    [][ FailStep
        => ( /\ fs' = fs
             /\ cache'.token = cache.token
             /\ cache'.expires_at = cache.expires_at ) ]_vars

====
